---- MODULE Spec2Model ----
(***************************************************************************)
(* The streaming chat client of the AI legal assistant frontend:           *)
(* the useStreamingChat hook (hooks/useStreamingChat.ts), the transfers    *)
(* its sendStreamingMessage calls start, and the StreamingChat component   *)
(* (components/StreamingChat.tsx) that calls it; then, each under a       *)
(* specification of its own, the useEnhancedChat hook, the budget hooks    *)
(* (useBudgetRefresh and the two hooks built on it) and AuthProvider.      *)
(*                                                                         *)
(* JavaScript runs the hook on one thread: a call of sendStreamingMessage  *)
(* runs until its next await (fetch, reader.read()), and each resumption   *)
(* runs until the following await.  Every action below is one such slice.  *)
(* setState updaters are applied in the order they were queued, so the     *)
(* hook state is modelled as updated in place.                             *)
(*                                                                         *)
(* Text on the wire is a sequence of symbols: the field prefix "data: ",   *)
(* a payload, and the line feed "\n".  A chunk boundary may fall between   *)
(* any two symbols.                                                        *)
(***************************************************************************)
EXTENDS Integers, Sequences, FiniteSets, Bags, TLC

\* ------------------------------------------------------------------ bounds
\* number of transfers that may be in flight at once
MaxInFlight == 2
\* number of events the servers write, over all calls
MaxEvents == 2
\* number of events the transport may deliver in one chunk
MaxChunk == 2
\* number of symbols of an event the transport may hold back for the next chunk
MaxHeld == 1
\* milliseconds the clock runs after the budget hooks have mounted
MaxElapsed == 3000
\* number of apiCall calls of callWithBudgetRefresh that may be pending at once
MaxApiCalls == 1
\* number of fetch calls of AuthProvider that may be pending at once
MaxRequests == 2

\* ------------------------------------------------------------- vocabulary
NULL == "null"
LF == "\n"
DataPrefix == "data: "
Sentinel == "[DONE]"

\* JSON texts a server can put after "data: " ("{bad" is not valid JSON)
TokA == "{type:token,content:A}"
TokB == "{type:token,content:B}"
CompleteX == "{type:complete,data:{answer:X}}"
CompleteNoAnswer == "{type:complete,data:{}}"
ErrorE == "{type:error,message:boom}"
StatusS == "{type:status,message:Searching}"
Garbage == "{bad"

\* the payloads the servers of this model write
Payloads == {TokA, TokB, CompleteX, ErrorE, Garbage, Sentinel}

\* the value of message.data: the answer field is NULL when it is missing
DataX == [answer |-> "X"]
DataEmpty == [answer |-> NULL]
Undefined == [answer |-> NULL, undefined |-> TRUE]

ParseError == [type |-> "SyntaxError"]

Msg(type, content, message, data) ==
  [type |-> type, content |-> content, message |-> message, data |-> data]

\* JSON.parse(data): the StreamingMessage, or ParseError when it throws
JSONparse(d) ==
  CASE d = TokA -> Msg("token", <<"A">>, NULL, Undefined)
    [] d = TokB -> Msg("token", <<"B">>, NULL, Undefined)
    [] d = CompleteX -> Msg("complete", <<>>, NULL, DataX)
    [] d = CompleteNoAnswer -> Msg("complete", <<>>, NULL, DataEmpty)
    [] d = ErrorE -> Msg("error", <<>>, "boom", Undefined)
    [] d = StatusS -> Msg("status", <<>>, "Searching", Undefined)
    [] OTHER -> ParseError

\* the text of one server-sent event: "data: <payload>\n\n"
EncodeEvent(p) == <<DataPrefix, p, LF, LF>>

RECURSIVE EncodeEvents(_)
EncodeEvents(ps) ==
  IF ps = <<>> THEN <<>> ELSE EncodeEvent(Head(ps)) \o EncodeEvents(Tail(ps))

\* ------------------------------------------------------------ hook state
VARIABLES
  state,           \* the StreamingState of useState
  eventSourceRef,  \* eventSourceRef.current
  inflight,        \* the transfers whose sendStreamingMessage call has not returned
  written,         \* number of events the servers have written so far
  clean,           \* history: no other transfer was in flight when the latest call was made
  stream,          \* history: what the latest call's response body has delivered
  question,        \* the question state of the StreamingChat component
  submit,          \* history: how the latest handleSubmit call went
  messages,        \* the contents of the message list after its last user message
  isLoading,       \* useEnhancedChat: the isLoading state
  error,           \* useEnhancedChat: the error state
  call,            \* useEnhancedChat: the locals of the latest enhancedChatStreamAPI call
  body,            \* useEnhancedChat: text of the response body not yet read
  sent,            \* history: the payloads of the events of the response body
  onMessage,       \* history: the last message the latest call passed to onMessage
  onError,         \* history: the message the latest sendMessage passed to onError
  now,             \* Date.now()
  lastRefreshRef,  \* lastRefreshRef.current of each useBudgetRefresh instance
  profiles,        \* the refreshProfile calls that have not settled
  apis,            \* the apiCall calls of callWithBudgetRefresh that have not settled
  called,          \* history: Date.now() at each refreshProfile call of an instance
  op,              \* history: the latest run of a handler of the budget hooks
  settled,         \* history: the latest refresh whose refreshProfile has settled
  provider,        \* AuthProvider: the user, token and isLoading states
  localStorage,    \* the 'auth_token' and 'user_data' entries of localStorage
  requests,        \* AuthProvider: the fetch calls that have not settled
  mounted,         \* AuthProvider: the mount effect has run
  loggedOut        \* history: logout has run and no login or register has succeeded since

\* the variables of the hook and of its transfers
hook == <<state, eventSourceRef, inflight, written, clean, stream>>

\* the variables of the StreamingChat component
chat == <<question, submit, messages>>

\* the variables of useEnhancedChat
enhanced == <<isLoading, error, call, body, sent, onMessage, onError>>

\* the variables of the streaming chat, and those outside it
streaming == <<hook, chat>>
\* the variables of the budget hooks
budget == <<now, lastRefreshRef, profiles, apis, called, op, settled>>

\* the variables of AuthProvider
auth == <<provider, localStorage, requests, mounted, loggedOut>>

outsideStreaming == <<enhanced, budget, auth>>
outsideEnhanced == <<streaming, budget, auth>>
outsideBudget == <<streaming, enhanced, auth>>
outsideAuth == <<streaming, enhanced, budget>>

vars ==
  <<state, eventSourceRef, inflight, written, clean, stream, question, submit,
    messages, isLoading, error, call, body, sent, onMessage, onError,
    now, lastRefreshRef, profiles, apis, called, op, settled,
    provider, localStorage, requests, mounted, loggedOut>>

\* finalData: null
NullData == [null |-> TRUE]

InitialState ==
  [isStreaming |-> FALSE, currentResponse |-> <<>>, status |-> "",
   error |-> NULL, finalData |-> NullData]

\* a transfer: the fetch and the read loop of one sendStreamingMessage call that
\* is suspended at an await.  The hook keeps no reference to it; inflight is the
\* bag of the suspended calls.
\*   pc      "fetch" (awaiting fetch) or "read" (awaiting reader.read())
\*   headers history: the headers of the request, kept while this is the
\*           transfer of the latest call and fetch awaits its response
\*   buffer  the local variable buffer of the read loop
\*   wire    text the server has written that the transport has not delivered
\*   transit history: the payload of the event that wire is the rest of
\*   latest  history: whether this is the transfer of the latest call
NoRequest == [none |-> TRUE]

NewTransfer ==
  [pc |-> "fetch", headers |-> NoRequest, buffer |-> <<>>, wire |-> <<>>,
   transit |-> NULL, latest |-> TRUE]

\* what a response body has delivered in whole events, up to its sentinel:
\*   tokens    the fragments of its token events, in the order written
\*   malformed whether one of its events was not JSON
\*   complete  whether one of its events was a complete event
\*   failed    whether one of its events was an error event
\*   sentinel  whether the sentinel has been delivered
NoStream ==
  [tokens |-> <<>>, malformed |-> FALSE, complete |-> FALSE, failed |-> FALSE,
   sentinel |-> FALSE]

\* no message has been passed to onMessage
NoMessage == [none |-> TRUE]

\* the locals of enhancedChatStreamAPI at their declarations, with
\*   pc       "idle", "fetch" (awaiting fetch), "read" (awaiting reader.read()),
\*            "done" (returned) or "failed" (rejected)
\*   sawError history: the loop has come to an error event
\*   pastError history: the loop has handled an event after an error event
NoCall ==
  [pc |-> "idle", fullResponse |-> <<>>, finalData |-> NullData,
   isFirstToken |-> TRUE, sawError |-> FALSE, pastError |-> FALSE]

\* useEnhancedChat before its first sendMessage
EnhancedIdle ==
  /\ isLoading = FALSE
  /\ error = NULL
  /\ call = NoCall
  /\ body = <<>>
  /\ sent = <<>>
  /\ onMessage = NoMessage
  /\ onError = NULL

\* the streaming chat before its first call
StreamingIdle ==
  /\ state = InitialState
  /\ eventSourceRef = NULL
  /\ inflight = EmptyBag
  /\ written = 0
  /\ clean = TRUE
  /\ stream = NoStream
  /\ question = <<>>
  /\ submit = NULL
  /\ messages = <<>>

\* Date.now() when the budget hooks mount: some time later than 2000 ms after
\* the epoch
MountTime == 2000

\* no handler of the budget hooks has run, no refresh has settled
NoOp == [none |-> TRUE]
NotSettled == [none |-> TRUE]

\* the useBudgetRefresh instances, named by the caller of useBudgetRefresh()
Instances == {"component", "useEnhancedChatWithBudget", "useApiWithBudgetRefresh"}

\* the budget hooks when they mount
BudgetIdle ==
  /\ now = MountTime
  /\ lastRefreshRef = [i \in Instances |-> 0]
  /\ profiles = EmptyBag
  /\ apis = EmptyBag
  /\ called = [i \in Instances |-> <<>>]
  /\ op = NoOp
  /\ settled = NotSettled

\* AuthProvider as constructed, in a browser that holds no session
AuthIdle ==
  /\ provider = [user |-> NULL, token |-> NULL, isLoading |-> TRUE]
  /\ localStorage = [auth_token |-> NULL, user_data |-> NULL]
  /\ requests = EmptyBag
  /\ mounted = FALSE
  /\ loggedOut = FALSE

Init ==
  /\ StreamingIdle
  /\ EnhancedIdle
  /\ BudgetIdle
  /\ AuthIdle

\* ------------------------------------------------------------ the parser
\* buffer.split('\n\n'): the pieces between non-overlapping blank lines,
\* scanning from the left; cur is the piece being collected
RECURSIVE SplitBlank(_, _)
SplitBlank(s, cur) ==
  IF s = <<>> THEN <<cur>>
  ELSE IF Len(s) >= 2 /\ s[1] = LF /\ s[2] = LF
       THEN <<cur>> \o SplitBlank(SubSeq(s, 3, Len(s)), <<>>)
       ELSE SplitBlank(Tail(s), Append(cur, Head(s)))

\* String.prototype.trim on a symbol sequence: line feeds are the white space
RECURSIVE TrimLeft(_)
TrimLeft(s) == IF s # <<>> /\ Head(s) = LF THEN TrimLeft(Tail(s)) ELSE s

RECURSIVE TrimRight(_)
TrimRight(s) ==
  IF s # <<>> /\ s[Len(s)] = LF THEN TrimRight(SubSeq(s, 1, Len(s) - 1)) ELSE s

Trim(s) == TrimRight(TrimLeft(s))

\* line.startsWith('data: ')
StartsWithData(line) == line # <<>> /\ line[1] = DataPrefix

\* JSON.parse applied to the trimmed rest of a line: one payload parses as
\* itself, anything else (nothing, or several symbols) is not JSON
ParseData(data) == IF Len(data) = 1 THEN JSONparse(data[1]) ELSE ParseError

\* message.data?.answer
Answer(data) == data.answer

\* Dispatch with the token fragment put in front of the text
DispatchPrepend(prev, message) ==
  CASE message.type = "status" ->
         [prev EXCEPT !.status = IF message.message # NULL THEN message.message
                                 ELSE "Processing..."]
    [] message.type = "token" ->
         [prev EXCEPT !.currentResponse = message.content \o prev.currentResponse,
                      !.status = "Generating response..."]
    [] message.type = "complete" ->
         [prev EXCEPT !.finalData = message.data,
                      !.currentResponse = IF Answer(message.data) # NULL
                                          THEN <<Answer(message.data)>>
                                          ELSE prev.currentResponse,
                      !.status = "Complete",
                      !.isStreaming = FALSE]
    [] message.type = "error" ->
         [prev EXCEPT !.error = IF message.message # NULL THEN message.message
                                ELSE "An error occurred",
                      !.status = "Error",
                      !.isStreaming = FALSE]
    [] OTHER -> prev

\* the setState updater of the event dispatch
Dispatch(prev, message) ==
  CASE message.type = "status" ->
         [prev EXCEPT !.status = IF message.message # NULL THEN message.message
                                 ELSE "Processing..."]
    [] message.type = "token" ->
         [prev EXCEPT !.currentResponse = prev.currentResponse \o message.content,
                      !.status = "Generating response..."]
    [] message.type = "complete" ->
         [prev EXCEPT !.finalData = message.data,
                      !.currentResponse = IF Answer(message.data) # NULL
                                          THEN <<Answer(message.data)>>
                                          ELSE prev.currentResponse,
                      !.status = "Complete",
                      !.isStreaming = FALSE]
    [] message.type = "error" ->
         [prev EXCEPT !.error = IF message.message # NULL THEN message.message
                                ELSE "An error occurred",
                      !.status = "Error",
                      !.isStreaming = FALSE]
    [] OTHER -> prev

\* Finish that leaves isStreaming as it is
FinishStatusOnly(prev) == [prev EXCEPT !.status = "Complete"]

\* Finish that seeds the text from the final payload once more
FinishReseed(prev) ==
  [prev EXCEPT !.isStreaming = FALSE, !.status = "Complete",
               !.currentResponse = IF prev.finalData = DataX
                                   THEN prev.currentResponse \o <<Answer(DataX)>>
                                   ELSE prev.currentResponse]

\* setState(prev => ({...prev, isStreaming: false, status: 'Complete'}))
Finish(prev) == [prev EXCEPT !.isStreaming = FALSE, !.status = "Complete"]

\* Fail that records the message but leaves the session streaming
FailStillStreaming(prev, msg) == [prev EXCEPT !.error = msg]

\* the catch block of sendStreamingMessage
Fail(prev, msg) ==
  [prev EXCEPT !.error = msg, !.status = "Error", !.isStreaming = FALSE]

\* ProcessLines with JSON.parse outside the inner try: a parse failure reaches
\* the catch block of sendStreamingMessage
RECURSIVE ProcessLinesThrowing(_, _)
ProcessLinesThrowing(acc, lines) ==
  IF lines = <<>> \/ acc.returned THEN acc
  ELSE
    LET line == Head(lines)
        data == Trim(Tail(line))
        message == ParseData(data)
    IN  IF Trim(line) = <<>> \/ ~StartsWithData(line)
        THEN ProcessLinesThrowing(acc, Tail(lines))
        ELSE IF data = <<Sentinel>>
        THEN [state |-> Finish(acc.state), returned |-> TRUE]
        ELSE IF message = ParseError
        THEN [state |-> Fail(acc.state, "Unexpected token"), returned |-> TRUE]
        ELSE ProcessLinesThrowing(
               [acc EXCEPT !.state = Dispatch(acc.state, message)], Tail(lines))

\* the body of "for (const line of lines)": acc carries the hook state and
\* whether the loop has left through "return"
RECURSIVE ProcessLines(_, _)
ProcessLines(acc, lines) ==
  IF lines = <<>> \/ acc.returned THEN acc
  ELSE
    LET line == Head(lines)
        data == Trim(Tail(line))
        message == ParseData(data)
    IN  IF Trim(line) = <<>> \/ ~StartsWithData(line)
        THEN ProcessLines(acc, Tail(lines))
        ELSE IF data = <<Sentinel>>
        THEN [state |-> Finish(acc.state), returned |-> TRUE]
        ELSE IF message = ParseError
        THEN ProcessLines(acc, Tail(lines))
        ELSE ProcessLines([acc EXCEPT !.state = Dispatch(acc.state, message)],
                          Tail(lines))

\* the fragment a server puts in a token event
Fragment(p) == CASE p = TokA -> <<"A">> [] p = TokB -> <<"B">> [] OTHER -> <<>>

\* history: the summary of a body once the events ps have been delivered too
RECURSIVE Delivered(_, _)
Delivered(sum, ps) ==
  IF ps = <<>> \/ sum.sentinel THEN sum
  ELSE LET p == Head(ps)
       IN  Delivered([tokens |-> sum.tokens \o Fragment(p),
                      malformed |-> sum.malformed \/ p = Garbage,
                      complete |-> sum.complete \/ p = CompleteX,
                      failed |-> sum.failed \/ p = ErrorE,
                      sentinel |-> p = Sentinel],
                     Tail(ps))

Front(s) == SubSeq(s, 1, Len(s) - 1)
Last(s) == s[Len(s)]

\* sequences over S of length 0..n
RECURSIVE SeqsUpTo(_, _)
SeqsUpTo(S, n) ==
  IF n = 0 THEN {<<>>}
  ELSE LET shorter == SeqsUpTo(S, n - 1)
       IN  shorter \cup {Append(q, x) : q \in {r \in shorter : Len(r) = n - 1}, x \in S}

\* ----------------------------------------------------- the bag of transfers
Count(b, e) == IF e \in DOMAIN b THEN b[e] ELSE 0

\* history: every transfer of b marked as not the latest
Superseded(b) ==
  LET old(e) == [e EXCEPT !.latest = FALSE, !.headers = NoRequest]
  IN  [e \in {old(x) : x \in DOMAIN b} |->
         BagCardinality([x \in {y \in DOMAIN b : old(y) = e} |-> b[x]])]

\* the transfer tr resumes and suspends again as next
Resume(tr, next) == (inflight (-) SetToBag({tr})) (+) SetToBag({next})

\* the call of transfer tr returns
Return(tr) == inflight (-) SetToBag({tr})

\* -------------------------------------------------------------- actions
\* what getAuthToken() can return: localStorage holds a token or none
AuthTokens == {NULL, "jwt"}

\* the headers of the request: Authorization only if there is a token
Headers(token) ==
  [accept |-> "text/event-stream",
   authorization |-> IF token # NULL THEN "Bearer " \o token ELSE NULL]

\* sendStreamingMessage that merges the new session into the previous state
sendStreamingMessageMerging ==
  /\ BagCardinality(inflight) < MaxInFlight
  /\ state' = [state EXCEPT !.isStreaming = TRUE, !.status = "Connecting..."]
  /\ \E token \in AuthTokens :
       inflight' = Superseded(inflight)
                     (+) SetToBag({[NewTransfer EXCEPT !.headers = Headers(token)]})
  /\ clean' = (inflight = EmptyBag)
  /\ stream' = NoStream
  /\ UNCHANGED <<eventSourceRef, written>>

\* sendStreamingMessage up to its first await: the reset, the close of an
\* existing connection, and the fetch call.  eventSourceRef.current is never
\* assigned a connection, and fetch is given no abort signal, so the close
\* reaches no transfer.
sendStreamingMessage ==
  /\ BagCardinality(inflight) < MaxInFlight
  /\ state' = [isStreaming |-> TRUE, currentResponse |-> <<>>,
               status |-> "Connecting...", error |-> NULL,
               finalData |-> NullData]
  /\ \E token \in AuthTokens :
       inflight' = Superseded(inflight)
                     (+) SetToBag({[NewTransfer EXCEPT !.headers = Headers(token)]})
  /\ clean' = (inflight = EmptyBag)
  /\ stream' = NoStream
  /\ UNCHANGED <<eventSourceRef, written>>

\* fetch resolves with an ok response that has a body: the loop starts
FetchOk(tr) ==
  /\ tr.pc = "fetch"
  /\ inflight' = Resume(tr, [tr EXCEPT !.pc = "read", !.headers = NoRequest,
                                        !.buffer = <<>>])
  /\ UNCHANGED <<state, eventSourceRef, written, clean, stream>>

\* the message of the TypeError a failed fetch or read rejects with
NetworkError == "Failed to fetch"

\* `HTTP error! status: ${response.status}` of a 401 response
HttpError == "HTTP error! status: 401"

FetchErrors ==
  {NetworkError, "HTTP error! status: 401", "Failed to get response reader"}

\* FetchFail that reads the body of a response that is not ok as an event
\* stream instead of throwing
FetchFailReadsBody(tr) ==
  /\ tr.pc = "fetch"
  /\ \E msg \in FetchErrors :
       IF msg = HttpError
       THEN /\ inflight' = Resume(tr, [tr EXCEPT !.pc = "read",
                                                 !.headers = NoRequest])
            /\ UNCHANGED state
       ELSE /\ state' = Fail(state, msg)
            /\ inflight' = Return(tr)
  /\ UNCHANGED <<eventSourceRef, written, clean, stream>>

\* fetch rejects, the response is not ok, or it has no body: the catch block
FetchFail(tr) ==
  /\ tr.pc = "fetch"
  /\ \E msg \in FetchErrors : state' = Fail(state, msg)
  /\ inflight' = Return(tr)
  /\ UNCHANGED <<eventSourceRef, written, clean, stream>>

\* the events a server may write between two reads
ChunkEvents == SeqsUpTo(Payloads, MaxChunk)

\* LoopPass that starts every pass with an empty buffer
LoopPassUnbuffered(prev, buffer, chunk) ==
  LET lines == SplitBlank(chunk, <<>>)
      acc == ProcessLines([state |-> prev, returned |-> FALSE], Front(lines))
  IN  [state |-> acc.state, returned |-> acc.returned, buffer |-> Last(lines)]

\* one pass of the while loop on a chunk: the state and the buffer it leaves,
\* and whether it left through "return"
LoopPass(prev, buffer, chunk) ==
  LET lines == SplitBlank(buffer \o chunk, <<>>)
      acc == ProcessLines([state |-> prev, returned |-> FALSE], Front(lines))
  IN  [state |-> acc.state, returned |-> acc.returned, buffer |-> Last(lines)]

\* what a pass of the loop leaves behind: the state, the call's buffer and the
\* text held back; begun are the events the text delivered or held belongs to
ReadChunkStep(tr, evs, held, pass, begun) ==
  /\ state' = pass.state
  /\ inflight' =
       IF pass.returned THEN Return(tr)
       ELSE Resume(tr, [tr EXCEPT
                          !.buffer = pass.buffer,
                          !.wire = held,
                          !.transit = IF held = <<>> THEN NULL ELSE Last(begun)])
  /\ written' = written + Len(evs)
  /\ stream' = IF tr.latest
               THEN Delivered(stream, IF held = <<>> THEN begun ELSE Front(begun))
               ELSE stream

\* the transport delivers the text full up to symbol k and holds the rest of
\* the last event back
ReadChunkCut(tr, evs, full) ==
  \E k \in 1..Len(full) :
     /\ Len(full) - k <= MaxHeld
     /\ Len(full) - k < Len(EncodeEvent(Sentinel))
     /\ ReadChunkStep(tr, evs, SubSeq(full, k + 1, Len(full)),
                      LoopPass(state, tr.buffer, SubSeq(full, 1, k)),
                      IF tr.wire = <<>> THEN evs ELSE <<tr.transit>> \o evs)

\* reader.read() resolves with a chunk: one pass of the while loop.  The server
\* has written the events evs since the last read.
\* decoder.decode(value, {stream: true}) hands over the symbols of the chunk:
\* a symbol stands for whole characters, which the streaming decoder never splits.
ReadChunk(tr) ==
  /\ tr.pc = "read"
  /\ \E evs \in ChunkEvents :
       /\ written + Len(evs) <= MaxEvents
       /\ ReadChunkCut(tr, evs, tr.wire \o EncodeEvents(evs))
  /\ UNCHANGED <<eventSourceRef, clean>>

\* ReadDone that takes the end of a body without sentinel for a failure
ReadDoneAsError(tr) ==
  /\ tr.pc = "read"
  /\ tr.wire = <<>>
  /\ state' = Fail(state, "Stream ended unexpectedly")
  /\ inflight' = Return(tr)
  /\ UNCHANGED <<eventSourceRef, written, clean, stream>>

\* reader.read() resolves with done: the body has ended
ReadDone(tr) ==
  /\ tr.pc = "read"
  /\ tr.wire = <<>>
  /\ state' = Finish(state)
  /\ inflight' = Return(tr)
  /\ UNCHANGED <<eventSourceRef, written, clean, stream>>

\* ReadFail with no catch block around the loop: the state is left as it is
ReadFailUncaught(tr) ==
  /\ tr.pc = "read"
  /\ inflight' = Return(tr)
  /\ UNCHANGED <<state, eventSourceRef, written, clean, stream>>

\* reader.read() rejects: the catch block
ReadFail(tr) ==
  /\ tr.pc = "read"
  /\ state' = Fail(state, NetworkError)
  /\ inflight' = Return(tr)
  /\ UNCHANGED <<eventSourceRef, written, clean, stream>>

\* stopStreaming: there is no connection in eventSourceRef to close
stopStreaming ==
  /\ eventSourceRef' = NULL
  /\ state' = [state EXCEPT !.isStreaming = FALSE, !.status = "Stopped"]
  /\ UNCHANGED <<inflight, written, clean, stream>>

\* the hook called in any order, with no component around it
Next ==
  \/ sendStreamingMessage /\ UNCHANGED <<chat, outsideStreaming>>
  \/ stopStreaming /\ UNCHANGED <<chat, outsideStreaming>>
  \/ \E tr \in BagToSet(inflight) : FetchOk(tr) /\ UNCHANGED <<chat, outsideStreaming>>
  \/ \E tr \in BagToSet(inflight) : FetchFail(tr) /\ UNCHANGED <<chat, outsideStreaming>>
  \/ \E tr \in BagToSet(inflight) : ReadChunk(tr) /\ UNCHANGED <<chat, outsideStreaming>>
  \/ \E tr \in BagToSet(inflight) : ReadDone(tr) /\ UNCHANGED <<chat, outsideStreaming>>
  \/ \E tr \in BagToSet(inflight) : ReadFail(tr) /\ UNCHANGED <<chat, outsideStreaming>>

Spec == Init /\ [][Next]_vars

\* ------------------------------------------------- the StreamingChat component
\* the characters String.prototype.trim removes, among those a user types
WhiteSpace == {" ", LF}

\* question.trim()
RECURSIVE TrimText(_)
TrimText(s) ==
  IF s # <<>> /\ Head(s) \in WhiteSpace THEN TrimText(Tail(s))
  ELSE IF s # <<>> /\ s[Len(s)] \in WhiteSpace THEN TrimText(SubSeq(s, 1, Len(s) - 1))
  ELSE s

\* what the user types into the textarea
Questions == {<<>>, <<" ">>, <<"q">>}

\* onChange of the textarea, which is disabled while isStreaming
TypeQuestion ==
  /\ ~state.isStreaming
  /\ \E q \in Questions \ {question} : question' = q
  /\ UNCHANGED <<hook, submit, messages, outsideStreaming>>

\* the dependencies of the completion effect.  finalData is compared by
\* content here and by identity in React: a complete event that repeats the
\* data of the previous one re-runs the effect in the component only.
EffectDeps(s) == <<s.isStreaming, s.currentResponse, s.status, s.finalData>>

\* the message list after the render that follows a slice which took the hook
\* state from before to after (the updates of one slice are rendered together):
\* the completion effect runs when one of its dependencies has changed, and
\* appends the assistant message when the session is complete with some text
CompletionEffect(before, after, list) ==
  IF /\ EffectDeps(after) # EffectDeps(before)
     /\ ~after.isStreaming
     /\ after.currentResponse # <<>>
     /\ after.status = "Complete"
  THEN Append(list, after.currentResponse)
  ELSE list

\* handleSubmit that tests isStreaming only
handleSubmitUnchecked ==
  /\ ~state.isStreaming
  /\ IF state.isStreaming
     THEN /\ submit' = "rejected"
          /\ UNCHANGED <<hook, question, messages, outsideStreaming>>
     ELSE /\ sendStreamingMessage
          /\ submit' = "sent"
          /\ messages' = CompletionEffect(state, state', <<>>)
          /\ UNCHANGED <<question, outsideStreaming>>

\* handleSubmit up to its await, from the Send button or the Enter key of the
\* textarea, both out of reach while isStreaming: it returns at once on a
\* blank question, and otherwise appends the user message and makes the call
handleSubmit ==
  /\ ~state.isStreaming
  /\ IF TrimText(question) = <<>> \/ state.isStreaming
     THEN /\ submit' = "rejected"
          /\ UNCHANGED <<hook, question, messages, outsideStreaming>>
     ELSE /\ sendStreamingMessage
          /\ submit' = "sent"
          /\ messages' = CompletionEffect(state, state', <<>>)
          /\ UNCHANGED <<question, outsideStreaming>>

\* the Stop button, which is rendered in place of Send while isStreaming
StopClick ==
  /\ state.isStreaming
  /\ stopStreaming
  /\ messages' = CompletionEffect(state, state', messages)
  /\ UNCHANGED <<question, submit, outsideStreaming>>

\* the call of some transfer returns in this step
Returned == BagCardinality(inflight') < BagCardinality(inflight)

\* the render after a slice of a call: the completion effect, and
\* handleSubmit after its await: setQuestion("") once the call has returned
AfterAwait ==
  /\ question' = IF Returned THEN <<>> ELSE question
  /\ messages' = CompletionEffect(state, state', messages)
  /\ UNCHANGED <<submit, outsideStreaming>>

NextUI ==
  \/ TypeQuestion
  \/ handleSubmit
  \/ StopClick
  \/ \E tr \in BagToSet(inflight) : FetchOk(tr) /\ AfterAwait
  \/ \E tr \in BagToSet(inflight) : FetchFail(tr) /\ AfterAwait
  \/ \E tr \in BagToSet(inflight) : ReadChunk(tr) /\ AfterAwait
  \/ \E tr \in BagToSet(inflight) : ReadDone(tr) /\ AfterAwait
  \/ \E tr \in BagToSet(inflight) : ReadFail(tr) /\ AfterAwait

\* the hook as the StreamingChat component drives it
SpecUI == Init /\ [][NextUI]_vars

\* ------------------------------------------------- a transport that ends
\* the fetch of some call settles
FetchSettles ==
  \E tr \in BagToSet(inflight) : (FetchOk(tr) \/ FetchFail(tr)) /\ UNCHANGED <<chat, outsideStreaming>>

\* the body of some call ends, or a read of it fails
BodyEnds ==
  \E tr \in BagToSet(inflight) : (ReadDone(tr) \/ ReadFail(tr)) /\ UNCHANGED <<chat, outsideStreaming>>

\* the hook over a transport that lets no fetch and no body hang for ever
SpecLive == Init /\ [][Next]_vars /\ WF_vars(FetchSettles) /\ WF_vars(BodyEnds)

\* ------------------------------------------- one body, cut in every way
\* the state sendStreamingMessage sets before its first await
ResetState ==
  [isStreaming |-> TRUE, currentResponse |-> <<>>, status |-> "Connecting...",
   error |-> NULL, finalData |-> NullData]

\* the payloads of the events of a text that starts at an event boundary
RECURSIVE EventsOf(_)
EventsOf(text) ==
  IF Len(text) < Len(EncodeEvent(Sentinel)) THEN <<>>
  ELSE <<text[2]>> \o EventsOf(SubSeq(text, Len(EncodeEvent(Sentinel)) + 1, Len(text)))

\* the number of events that n undelivered symbols belong to
EventsHeld(n) ==
  (n + Len(EncodeEvent(Sentinel)) - 1) \div Len(EncodeEvent(Sentinel))

\* a call whose response has arrived and whose server has written the whole
\* body, of any events, before the first read
InitChunks ==
  /\ state = ResetState
  /\ eventSourceRef = NULL
  /\ \E evs \in SeqsUpTo(Payloads, MaxEvents) :
       /\ inflight = SetToBag({[NewTransfer EXCEPT !.pc = "read",
                                                   !.wire = EncodeEvents(evs)]})
       /\ written = Len(evs)
  /\ clean = TRUE
  /\ stream = NoStream
  /\ question = <<>>
  /\ submit = NULL
  /\ messages = <<>>
  /\ EnhancedIdle
  /\ BudgetIdle
  /\ AuthIdle

\* reader.read() resolves with a chunk, which the transport ends after any
\* symbol of the text written: one pass of the while loop
ReadPart(tr) ==
  /\ tr.pc = "read"
  /\ \E k \in 1..Len(tr.wire) :
       LET chunk == SubSeq(tr.wire, 1, k)
           held == SubSeq(tr.wire, k + 1, Len(tr.wire))
           pass == LoopPass(state, tr.buffer, chunk)
           rest == Len(tr.wire) % Len(EncodeEvent(Sentinel))
           begun == IF rest = 0 THEN EventsOf(tr.wire)
                    ELSE <<tr.transit>>
                           \o EventsOf(SubSeq(tr.wire, rest + 1, Len(tr.wire)))
           whole == SubSeq(begun, 1, Len(begun) - EventsHeld(Len(held)))
       IN  /\ state' = pass.state
           /\ inflight' =
                IF pass.returned THEN Return(tr)
                ELSE Resume(tr, [tr EXCEPT
                                   !.buffer = pass.buffer,
                                   !.wire = held,
                                   !.transit =
                                     IF Len(held) % Len(EncodeEvent(Sentinel)) = 0
                                     THEN NULL
                                     ELSE begun[Len(whole) + 1]])
           /\ stream' = IF tr.latest THEN Delivered(stream, whole) ELSE stream
  /\ UNCHANGED <<eventSourceRef, written, clean>>

NextChunks ==
  \/ \E tr \in BagToSet(inflight) : ReadPart(tr) /\ UNCHANGED <<chat, outsideStreaming>>
  \/ \E tr \in BagToSet(inflight) : ReadDone(tr) /\ UNCHANGED <<chat, outsideStreaming>>

\* the read loop of one call on every body of up to MaxEvents events, under
\* every partition of its text into chunks
SpecChunks == InitChunks /\ [][NextChunks]_vars

\* ------------------------------------------------------- useEnhancedChat
\* chunk.split('\n'): the pieces between line feeds; cur is the piece being
\* collected
RECURSIVE SplitLines(_, _)
SplitLines(s, cur) ==
  IF s = <<>> THEN <<cur>>
  ELSE IF Head(s) = LF THEN <<cur>> \o SplitLines(Tail(s), <<>>)
  ELSE SplitLines(Tail(s), Append(cur, Head(s)))

\* the messages passed to onMessage: isStreaming FALSE stands for no such field
StreamingMessage(content) == [content |-> content, isStreaming |-> TRUE]
FinalMessage(content) == [content |-> content, isStreaming |-> FALSE]

\* the body of the inner try for a parsed event.  acc carries the locals of the
\* call, the isLoading state, the last onMessage message and whether the loop
\* has left through "return".  The Error thrown for an error event is caught by
\* the catch of the same try.
HandleEvent(acc, eventData) ==
  LET later == [acc EXCEPT !.call.pastError = acc.call.sawError]
  IN  CASE eventData.type = "token" ->
             [later EXCEPT
                !.isLoading = IF acc.call.isFirstToken THEN FALSE ELSE @,
                !.call.isFirstToken = FALSE,
                !.call.fullResponse = @ \o eventData.content,
                !.onMessage = StreamingMessage(acc.call.fullResponse
                                                 \o eventData.content)]
        [] eventData.type = "complete" ->
             [later EXCEPT
                !.call.finalData = eventData.data,
                !.call.fullResponse =
                   IF Answer(eventData.data) # NULL /\ @ = <<>>
                   THEN <<Answer(eventData.data)>> ELSE @]
        [] eventData.type = "error" -> [acc EXCEPT !.call.sawError = TRUE]
        [] OTHER -> acc

\* the body of "for (const line of lines)"
RECURSIVE HandleLines(_, _)
HandleLines(acc, lines) ==
  IF lines = <<>> \/ acc.returned THEN acc
  ELSE
    LET line == Head(lines)
        data == Tail(line)
        eventData == ParseData(data)
    IN  IF ~StartsWithData(line) THEN HandleLines(acc, Tail(lines))
        ELSE IF data = <<Sentinel>>
        THEN [acc EXCEPT
                !.returned = TRUE,
                !.call.pastError = acc.call.sawError,
                !.onMessage = IF acc.call.finalData # NullData
                              THEN FinalMessage(acc.call.fullResponse) ELSE @]
        ELSE IF eventData = ParseError THEN HandleLines(acc, Tail(lines))
        ELSE HandleLines(HandleEvent(acc, eventData), Tail(lines))

\* one pass of the while loop on a chunk: the lines are those of the chunk alone
ChunkPass(chunk) ==
  HandleLines([call |-> call, isLoading |-> isLoading, onMessage |-> onMessage,
               returned |-> FALSE],
              SplitLines(chunk, <<>>))

\* the catch and finally blocks of sendMessage
Reject(message) ==
  /\ error' = message
  /\ onError' = message
  /\ isLoading' = FALSE

\* sendMessage up to the first await of enhancedChatStreamAPI; without a token
\* the call rejects before it fetches.  One call at a time.
sendMessage ==
  /\ call.pc \notin {"fetch", "read"}
  /\ \E token \in AuthTokens :
       IF token = NULL
       THEN /\ Reject("Authentication required")
            /\ call' = [NoCall EXCEPT !.pc = "failed"]
       ELSE /\ error' = NULL
            /\ isLoading' = TRUE
            /\ onError' = NULL
            /\ call' = [NoCall EXCEPT !.pc = "fetch"]
  /\ body' = <<>>
  /\ sent' = <<>>
  /\ onMessage' = NoMessage
  /\ UNCHANGED outsideEnhanced

\* fetch resolves with an ok response, whose body the server fills with events
EnhancedFetchOk ==
  /\ call.pc = "fetch"
  /\ call' = [call EXCEPT !.pc = "read"]
  /\ \E evs \in SeqsUpTo(Payloads, MaxEvents) :
       /\ sent' = evs
       /\ body' = EncodeEvents(evs)
  /\ UNCHANGED <<isLoading, error, onMessage, onError, outsideEnhanced>>

\* what the call rejects with before its loop: fetch rejecting, a response
\* that is not ok, a response without a body
EnhancedFetchErrors ==
  {NetworkError, "Failed to send message", "Stream not available"}

EnhancedFetchFail ==
  /\ call.pc = "fetch"
  /\ \E message \in EnhancedFetchErrors : Reject(message)
  /\ call' = [call EXCEPT !.pc = "failed"]
  /\ UNCHANGED <<body, sent, onMessage, outsideEnhanced>>

\* the state after a pass of the loop over a chunk that leaves rest unread; a
\* return from the loop runs the finally of sendMessage
EnhancedReadStep(pass, rest) ==
  /\ call' = [pass.call EXCEPT !.pc = IF pass.returned THEN "done" ELSE "read"]
  /\ onMessage' = pass.onMessage
  /\ body' = rest
  /\ isLoading' = IF pass.returned THEN FALSE ELSE pass.isLoading
  /\ UNCHANGED <<error, onError>>

\* reader.read() resolves with a chunk, which the transport ends after any
\* symbol of the body
EnhancedRead ==
  /\ call.pc = "read"
  /\ \E k \in 1..Len(body) :
       EnhancedReadStep(ChunkPass(SubSeq(body, 1, k)),
                        SubSeq(body, k + 1, Len(body)))
  /\ UNCHANGED <<sent, outsideEnhanced>>

\* reader.read() resolves with done: break, and the finally of sendMessage
EnhancedReadDone ==
  /\ call.pc = "read"
  /\ body = <<>>
  /\ call' = [call EXCEPT !.pc = "done"]
  /\ isLoading' = FALSE
  /\ UNCHANGED <<error, body, sent, onMessage, onError, outsideEnhanced>>

\* reader.read() rejects
EnhancedReadFail ==
  /\ call.pc = "read"
  /\ Reject(NetworkError)
  /\ call' = [call EXCEPT !.pc = "failed"]
  /\ UNCHANGED <<body, sent, onMessage, outsideEnhanced>>

NextEnhanced ==
  \/ sendMessage
  \/ EnhancedFetchOk
  \/ EnhancedFetchFail
  \/ EnhancedRead
  \/ EnhancedReadDone
  \/ EnhancedReadFail

\* useEnhancedChat, one sendMessage at a time, on every body of up to
\* MaxEvents events under every partition of its text into chunks
SpecEnhanced == Init /\ [][NextEnhanced]_vars

\* ------------------------------------------------------- the budget hooks
\* useBudgetRefresh, handleMessageWithBudgetRefresh of useEnhancedChatWithBudget
\* and callWithBudgetRefresh of useApiWithBudgetRefresh, each over the
\* useBudgetRefresh instance of its own hook.  refreshProfile is the call of
\* the auth context, which settles some time after it was made.
DEBOUNCE_MS == 2000

\* the milliseconds that pass between two steps
Ticks == {999, 1001}

\* the instance whose refresh function the caller from holds
InstanceOf(from) ==
  CASE from \in {"handleMessageWithBudgetRefresh", "manualRefreshBudget"} ->
         "useEnhancedChatWithBudget"
    [] from = "callWithBudgetRefresh" -> "useApiWithBudgetRefresh"
    [] OTHER -> "component"

\* shouldRefresh that lets a call through one second after the last
shouldRefreshEarly(i) == now - lastRefreshRef[i] >= 1000

\* shouldRefresh()
shouldRefresh(i) == now - lastRefreshRef[i] >= DEBOUNCE_MS

\* what became of the refresh a handler asked for
RefreshResult(i) == IF shouldRefresh(i) THEN "started" ELSE "skipped"

\* the body shared by refreshBudget, refreshBudgetWithFeedback and
\* refreshBudgetSilently up to the await: by is the function, from its caller,
\* whose instance it is
RefreshStep(by, from) ==
  IF shouldRefresh(InstanceOf(from))
  THEN /\ lastRefreshRef' = [lastRefreshRef EXCEPT ![InstanceOf(from)] = now]
       /\ profiles' = profiles (+) SetToBag({[by |-> by, from |-> from]})
       /\ called' = [called EXCEPT ![InstanceOf(from)] = Append(@, now)]
  ELSE UNCHANGED <<lastRefreshRef, profiles, called>>

NoRefresh == UNCHANGED <<lastRefreshRef, profiles, called>>

\* the record of a handler's run
Op(name, arg, forwarded, refresh, result) ==
  [name |-> name, arg |-> arg, forwarded |-> forwarded, refresh |-> refresh,
   result |-> result]

NoArg == [none |-> TRUE]

\* time passes
Tick ==
  /\ \E d \in Ticks :
       /\ now + d <= MountTime + MaxElapsed
       /\ now' = now + d
  /\ UNCHANGED <<lastRefreshRef, profiles, apis, called, op, settled,
                 outsideBudget>>

\* a component calls one of the three refresh functions
RefreshFunctions ==
  {"refreshBudget", "refreshBudgetWithFeedback", "refreshBudgetSilently"}

refreshBudget ==
  /\ RefreshStep("refreshBudget", "component")
  /\ op' = Op("refreshBudget", NoArg, NoMessage, RefreshResult("component"), NULL)
  /\ UNCHANGED <<now, apis, settled, outsideBudget>>

refreshBudgetWithFeedback ==
  /\ RefreshStep("refreshBudgetWithFeedback", "component")
  /\ op' = Op("refreshBudgetWithFeedback", NoArg, NoMessage, RefreshResult("component"), NULL)
  /\ UNCHANGED <<now, apis, settled, outsideBudget>>

refreshBudgetSilently ==
  /\ RefreshStep("refreshBudgetSilently", "component")
  /\ op' = Op("refreshBudgetSilently", NoArg, NoMessage, RefreshResult("component"), NULL)
  /\ UNCHANGED <<now, apis, settled, outsideBudget>>

\* the messages a chat passes to onMessage
ChatMessages ==
  [sender : {"user", "assistant"}, isStreaming : BOOLEAN, content : {<<"A">>}]

\* the test of handleMessageWithBudgetRefresh
RefreshesFor(autoRefreshBudget, message) ==
  autoRefreshBudget /\ message.sender = "assistant" /\ ~message.isStreaming

\* handleMessageWithBudgetRefresh that refreshes for every assistant message
handleMessageRefreshingAlways ==
  /\ \E message \in ChatMessages, autoRefreshBudget \in BOOLEAN :
       /\ IF autoRefreshBudget /\ message.sender = "assistant"
          THEN RefreshStep("refreshBudgetSilently", "handleMessageWithBudgetRefresh")
          ELSE NoRefresh
       /\ op' = Op("handleMessageWithBudgetRefresh",
                   [message |-> message, autoRefreshBudget |-> autoRefreshBudget],
                   message,
                   IF autoRefreshBudget /\ message.sender = "assistant"
                   THEN RefreshResult("useEnhancedChatWithBudget") ELSE "none",
                   NULL)
  /\ UNCHANGED <<now, apis, settled, outsideBudget>>

\* handleMessageWithBudgetRefresh up to its await: the caller's onMessage is
\* called with the message, and then refreshBudgetSilently if the test passes
handleMessageWithBudgetRefresh ==
  /\ \E message \in ChatMessages, autoRefreshBudget \in BOOLEAN :
       /\ IF RefreshesFor(autoRefreshBudget, message)
          THEN RefreshStep("refreshBudgetSilently", "handleMessageWithBudgetRefresh")
          ELSE NoRefresh
       /\ op' = Op("handleMessageWithBudgetRefresh",
                   [message |-> message, autoRefreshBudget |-> autoRefreshBudget],
                   message,
                   IF RefreshesFor(autoRefreshBudget, message)
                   THEN RefreshResult("useEnhancedChatWithBudget") ELSE "none",
                   NULL)
  /\ UNCHANGED <<now, apis, settled, outsideBudget>>

\* manualRefreshBudget, returned as refreshBudget by useEnhancedChatWithBudget
manualRefreshBudget ==
  /\ RefreshStep("refreshBudgetSilently", "manualRefreshBudget")
  /\ op' = Op("manualRefreshBudget", NoArg, NoMessage,
              RefreshResult("useEnhancedChatWithBudget"), NULL)
  /\ UNCHANGED <<now, apis, settled, outsideBudget>>

\* callWithBudgetRefresh up to its await: apiCall() is made
callWithBudgetRefresh ==
  /\ BagCardinality(apis) < MaxApiCalls
  /\ \E shouldRefreshBudget \in BOOLEAN :
       apis' = apis (+) SetToBag({[shouldRefreshBudget |-> shouldRefreshBudget]})
  /\ UNCHANGED <<now, lastRefreshRef, profiles, called, op, settled,
                 outsideBudget>>

\* what an apiCall resolves with and rejects with
ApiValues == {"response1", "response2"}
ApiErrors == {"HTTP 500", "HTTP 429"}

Resolved(v) == [settled |-> "resolved", with |-> v]
Rejected(e) == [settled |-> "rejected", with |-> e]

\* apiCall resolves: the refresh is started and left alone, the result returned
ApiResolves(a) ==
  /\ apis' = apis (-) SetToBag({a})
  /\ IF a.shouldRefreshBudget
     THEN RefreshStep("refreshBudgetSilently", "callWithBudgetRefresh")
     ELSE NoRefresh
  /\ \E v \in ApiValues :
       op' = Op("callWithBudgetRefresh",
                [outcome |-> Resolved(v),
                 shouldRefreshBudget |-> a.shouldRefreshBudget],
                NoMessage,
                IF a.shouldRefreshBudget THEN RefreshResult("useApiWithBudgetRefresh")
                ELSE "none",
                Resolved(v))
  /\ UNCHANGED <<now, settled, outsideBudget>>

\* ApiRejects that refreshes the budget in a finally block
ApiRejectsRefreshing(a) ==
  /\ apis' = apis (-) SetToBag({a})
  /\ IF a.shouldRefreshBudget
     THEN RefreshStep("refreshBudgetSilently", "callWithBudgetRefresh")
     ELSE NoRefresh
  /\ \E e \in ApiErrors :
       op' = Op("callWithBudgetRefresh",
                [outcome |-> Rejected(e),
                 shouldRefreshBudget |-> a.shouldRefreshBudget],
                NoMessage,
                IF a.shouldRefreshBudget THEN RefreshResult("useApiWithBudgetRefresh")
                ELSE "none",
                Rejected(e))
  /\ UNCHANGED <<now, settled, outsideBudget>>

\* apiCall rejects: the catch block rethrows the error
ApiRejects(a) ==
  /\ apis' = apis (-) SetToBag({a})
  /\ NoRefresh
  /\ \E e \in ApiErrors :
       op' = Op("callWithBudgetRefresh",
                [outcome |-> Rejected(e),
                 shouldRefreshBudget |-> a.shouldRefreshBudget],
                NoMessage, "none", Rejected(e))
  /\ UNCHANGED <<now, settled, outsideBudget>>

\* the toast of a refresh function once refreshProfile has settled
ToastOf(by, ok) ==
  CASE by = "refreshBudget" ->
         IF ok THEN NULL ELSE "Failed to update budget information"
    [] by = "refreshBudgetWithFeedback" ->
         IF ok THEN "Budget information updated"
         ELSE "Failed to update budget information"
    [] OTHER -> NULL

\* how the promise of a refresh function settles: each of the three catches
\* the rejection of refreshProfile
RefreshOutcome(by, ok) == "resolved"

\* how the promise of the caller from settles, given that of the refresh
\* function: the handler and callWithBudgetRefresh catch, manualRefreshBudget
\* rethrows, a component sees it
CallerOutcome(from, outcome) ==
  IF from \in {"handleMessageWithBudgetRefresh", "callWithBudgetRefresh"}
  THEN "resolved"
  ELSE outcome

\* the record of a refresh that has settled
Settled(p, ok) ==
  [by |-> p.by, from |-> p.from,
   profile |-> IF ok THEN "resolved" ELSE "rejected",
   toast |-> ToastOf(p.by, ok),
   caller |-> CallerOutcome(p.from, RefreshOutcome(p.by, ok))]

\* refreshProfile resolves or rejects: the rest of the refresh function
ProfileResolves(p) ==
  /\ profiles' = profiles (-) SetToBag({p})
  /\ settled' = Settled(p, TRUE)
  /\ UNCHANGED <<now, lastRefreshRef, apis, called, op, outsideBudget>>

ProfileRejects(p) ==
  /\ profiles' = profiles (-) SetToBag({p})
  /\ settled' = Settled(p, FALSE)
  /\ UNCHANGED <<now, lastRefreshRef, apis, called, op, outsideBudget>>

\* The three hooks share no state: each has its own useBudgetRefresh instance,
\* so each is run on its own.
NextBudget ==
  \/ Tick
  \/ refreshBudget
  \/ refreshBudgetWithFeedback
  \/ refreshBudgetSilently
  \/ \E p \in BagToSet(profiles) : ProfileResolves(p)
  \/ \E p \in BagToSet(profiles) : ProfileRejects(p)

\* useBudgetRefresh, its functions called by a component in any order while
\* time passes
SpecBudget == Init /\ [][NextBudget]_vars

NextChatBudget ==
  \/ Tick
  \/ handleMessageWithBudgetRefresh
  \/ manualRefreshBudget
  \/ \E p \in BagToSet(profiles) : ProfileResolves(p)
  \/ \E p \in BagToSet(profiles) : ProfileRejects(p)

\* useEnhancedChatWithBudget: its onMessage wrapper called with any message,
\* and its refreshBudget, while time passes
SpecChatBudget == Init /\ [][NextChatBudget]_vars

NextApiBudget ==
  \/ Tick
  \/ callWithBudgetRefresh
  \/ \E a \in BagToSet(apis) : ApiResolves(a)
  \/ \E a \in BagToSet(apis) : ApiRejects(a)
  \/ \E p \in BagToSet(profiles) : ProfileResolves(p)
  \/ \E p \in BagToSet(profiles) : ProfileRejects(p)

\* useApiWithBudgetRefresh: callWithBudgetRefresh on API calls that resolve
\* or reject while time passes
SpecApiBudget == Init /\ [][NextApiBudget]_vars

\* =================================================================== claims
IsPrefix(a, b) == Len(a) <= Len(b) /\ SubSeq(b, 1, Len(a)) = a

\* the latest call is still suspended at an await
LatestInFlight == \E tr \in BagToSet(inflight) : tr.latest

\* C1: in a session that shares the hook with no earlier transfer and whose
\* stream carries no complete event, currentResponse is the concatenation of
\* the fragments of the token events delivered, in the order they were written.
C1_TokensInOrder ==
  (clean /\ ~stream.complete) => state.currentResponse = stream.tokens

C1_Witness ==
  /\ clean /\ ~stream.complete
  /\ stream.tokens = <<"B", "A">>
  /\ state.currentResponse = <<"B", "A">>

\* C2: while the latest call has not yet received its response, currentResponse
\* holds no fragment (any fragment there was delivered on an earlier call's
\* stream).
C2_NoForeignFragment ==
  \A tr \in BagToSet(inflight) :
    (tr.latest /\ tr.pc = "fetch") => state.currentResponse = <<>>

\* C3: once status is 'Stopped' it stays 'Stopped', with error null, until the
\* next sendStreamingMessage.
C3_StoppedStays ==
  [][(state.status = "Stopped" /\ state.error = NULL /\ ~sendStreamingMessage)
       => (state'.status = "Stopped" /\ state'.error = NULL)]_vars

\* C4: after stopStreaming no read loop takes a chunk from its response body
\* and currentResponse receives no fragment, until the next sendStreamingMessage.
C4_StopReleases ==
  [][(state.status = "Stopped" /\ ~sendStreamingMessage)
       => /\ ~(\E tr \in BagToSet(inflight) : ReadChunk(tr))
          /\ state'.currentResponse = state.currentResponse]_vars

\* C5: between two resets, every new value of currentResponse has the previous
\* value as a prefix.
C5_AppendOnly ==
  [][~sendStreamingMessage
       => IsPrefix(state.currentResponse, state'.currentResponse)]_vars

\* C6: the step that delivers the sentinel to the latest call's loop leaves
\* status 'Complete' and isStreaming false, whatever follows the sentinel in
\* the chunk, and ends the loop; and once the sentinel is delivered in a
\* session with no complete event the text is the fragments written before it.
C6_SentinelCompletes ==
  [][(~stream.sentinel /\ stream'.sentinel)
       => /\ state'.status = "Complete"
          /\ ~state'.isStreaming
          /\ ~LatestInFlight'
          /\ (clean /\ ~stream'.complete)
               => state'.currentResponse = stream'.tokens]_vars

\* the sentinel, then one more event in the same session, with no token before
C6_Witness ==
  /\ clean /\ stream.sentinel /\ stream.tokens = <<>>
  /\ ~stream.malformed /\ ~stream.complete /\ ~stream.failed
  /\ written = 2
  /\ state.status = "Complete" /\ ~state.isStreaming
  /\ state.currentResponse = <<>>

\* C7: once an error event has set error, status, error and currentResponse
\* change no more, except by stopStreaming or the next sendStreamingMessage.
C7_ErrorEndsReading ==
  [][(clean /\ stream.failed /\ ~sendStreamingMessage /\ ~stopStreaming)
       => /\ state'.status = state.status
          /\ state'.error = state.error
          /\ state'.currentResponse = state.currentResponse]_vars

C9_CachedAnswerOnce ==
  (clean /\ stream.complete /\ stream.tokens = <<>>)
    => (state.currentResponse = <<"X">> /\ state.finalData = DataX)

C9_Witness ==
  /\ clean /\ stream.complete /\ stream.sentinel /\ stream.tokens = <<>>
  /\ state.currentResponse = <<"X">>
  /\ state.finalData = DataX
  /\ state.status = "Complete"

\* C10: at most one transfer is in flight at any time.
C10_OneTransfer == BagCardinality(inflight) <= 1

\* C11: stopStreaming called while no transfer is in flight changes nothing:
\* status, error, currentResponse, finalData and isStreaming stay as they are.
C11_StopIdleNoOp ==
  [][(inflight = EmptyBag /\ stopStreaming) => state' = state]_vars

\* C12: no request without an Authorization header ever awaits its response:
\* a send with no auth token issues no request.
C12_NoRequestWithoutToken ==
  \A tr \in BagToSet(inflight) :
    (tr.latest /\ tr.pc = "fetch") => tr.headers.authorization # NULL

\* C13: when read reports done for a call whose loop has seen no sentinel,
\* status becomes 'Complete', isStreaming false and the call returns, and
\* currentResponse is left as it is: in a session that shares the hook with no
\* earlier transfer and has no complete event, the fragments delivered so far.
C13_EndOfBodyCompletes ==
  [][\A tr \in BagToSet(inflight) :
       (~(tr.latest /\ stream.sentinel) /\ ReadDone(tr))
         => /\ state'.status = "Complete"
            /\ ~state'.isStreaming
            /\ state'.currentResponse = state.currentResponse
            /\ tr.latest => ~LatestInFlight'
            /\ (tr.latest /\ clean /\ ~stream.complete)
                 => state'.currentResponse = stream.tokens]_vars

\* a body that carried one token and ended without sentinel
C13_Witness ==
  /\ clean /\ ~stream.sentinel /\ ~stream.complete /\ ~stream.failed
  /\ stream.tokens = <<"A">>
  /\ ~LatestInFlight
  /\ state.error = NULL
  /\ state.status = "Complete" /\ ~state.isStreaming
  /\ state.currentResponse = <<"A">>

\* C14: error is non-null only when status is 'Error'.
C14_ErrorOnlyInErrorStatus == state.error # NULL => state.status = "Error"

\* C15: when the fetch of the latest call does not yield a readable response
\* (the endpoint answers with a status that is not a success, such as 401, or
\* fetch rejects, or there is no body), the call ends there: status 'Error',
\* the message as error, isStreaming false, the call returned with nothing of
\* the body read, currentResponse as it was, which is empty when no earlier
\* transfer shares the hook.
C15_HttpErrorEndsSession ==
  [][\A tr \in BagToSet(inflight) :
       (tr.latest /\ tr.pc = "fetch" /\ FetchFail(tr))
         => /\ state'.status = "Error"
            /\ state'.error \in FetchErrors
            /\ ~state'.isStreaming
            /\ ~LatestInFlight'
            /\ stream' = NoStream
            /\ state'.currentResponse = state.currentResponse
            /\ clean => state'.currentResponse = <<>>]_vars

\* the session after a 401
C15_Witness ==
  /\ clean /\ ~LatestInFlight
  /\ stream = NoStream
  /\ state.error = HttpError
  /\ state.status = "Error" /\ ~state.isStreaming
  /\ state.currentResponse = <<>>

\* C16: at every failure point of a call (fetch rejecting, a response that is
\* not ok, no body reader, a read rejecting) the call returns from its catch
\* block, with status 'Error', an error message and isStreaming false.
C16_FailuresCaptured ==
  [][\A tr \in BagToSet(inflight) :
       (FetchFail(tr) \/ ReadFail(tr))
         => /\ state'.status = "Error"
            /\ state'.error \in FetchErrors
            /\ ~state'.isStreaming
            /\ inflight' = Return(tr)]_vars

\* a read that rejected in mid-stream, after a token
C16_Witness ==
  /\ clean /\ ~LatestInFlight
  /\ stream.tokens = <<"A">> /\ ~stream.sentinel /\ ~stream.failed
  /\ state.error = NetworkError
  /\ state.status = "Error" /\ ~state.isStreaming
  /\ state.currentResponse = <<"A">>

\* the state the one call in calls, if any, ends in from the state prev if the
\* text not yet delivered arrives as a single chunk and the body ends after it
FinalIfWhole(prev, calls) ==
  IF calls = EmptyBag THEN prev
  ELSE LET tr == CHOOSE t \in BagToSet(calls) : TRUE
           pass == LoopPass(prev, tr.buffer, tr.wire)
       IN  IF pass.returned THEN pass.state ELSE Finish(pass.state)

\* C17: the state a call ends in does not depend on where the transport cuts
\* the text of the body.  Before the first read FinalIfWhole is the result of
\* the whole text arriving as one chunk; no read, of a chunk ending after any
\* symbol, changes it; so after the last read of any partition the final
\* currentResponse, status, error, finalData and isStreaming are those of the
\* single chunk.
C17_ChunkingIndependent ==
  [][FinalIfWhole(state', inflight') = FinalIfWhole(state, inflight)]_vars

\* a body cut inside the blank line that ends its second event, after a first
\* event that was dispatched from an earlier chunk
C17_Witness ==
  /\ state.currentResponse = <<"A">>
  /\ \E tr \in BagToSet(inflight) :
       /\ tr.buffer = <<DataPrefix, TokB, LF>>
       /\ tr.wire = <<LF>>
  /\ FinalIfWhole(state, inflight).currentResponse = <<"A", "B">>
  /\ FinalIfWhole(state, inflight).status = "Complete"

\* C18: whatever the state before, the step of sendStreamingMessage up to its
\* first await leaves isStreaming true, currentResponse empty, status
\* 'Connecting...', error null and finalData null.
C18_SendResets == [][sendStreamingMessage => state' = ResetState]_vars

\* the reset state of a second session, after a first one that received two
\* events and ended
C18_Witness ==
  /\ state = ResetState
  /\ clean /\ written = 2
  /\ \E tr \in BagToSet(inflight) : tr.latest /\ tr.pc = "fetch"

\* C19: while the question is empty or white space only, no step makes a call
\* of sendStreamingMessage: no request is issued and the session state is not
\* reset; handleSubmit returns with everything of the hook as it was.
C19_BlankQuestionRejected ==
  [][TrimText(question) = <<>>
       => /\ ~sendStreamingMessage
          /\ BagCardinality(inflight') <= BagCardinality(inflight)
          /\ handleSubmit => (submit' = "rejected" /\ UNCHANGED hook)]_vars

\* a question of white space submitted to the fresh component
C19_Witness ==
  /\ question = <<" ">>
  /\ submit = "rejected"
  /\ state = InitialState
  /\ inflight = EmptyBag

\* the statuses a session ends in
TerminalStatus == {"Complete", "Error", "Stopped"}

Terminal == ~state.isStreaming /\ state.status \in TerminalStatus

\* C20: over a transport that lets no fetch and no body hang for ever, every
\* call is followed by a state with isStreaming false and a terminal status;
\* a call that returns leaves such a state; and once no more calls are made,
\* every read loop ends and the state stays terminal, unless no call was ever
\* made.
C20_SessionsEnd ==
  /\ LatestInFlight ~> Terminal
  /\ [][Returned => Terminal']_vars
  /\ <>[][~sendStreamingMessage]_vars
       => <>[](inflight = EmptyBag /\ (state = InitialState \/ Terminal))

\* a session that a failed read has ended
C20_Witness ==
  /\ inflight = EmptyBag
  /\ clean /\ stream.tokens = <<"B">> /\ ~stream.sentinel /\ ~stream.complete
  /\ state.status = "Error" /\ ~state.isStreaming
  /\ state.error = NetworkError

\* C21: from the reset of sendStreamingMessage until a complete event of the
\* latest call's own stream has been processed, finalData is null, whatever an
\* earlier transfer delivers meanwhile.
C21_FinalDataOnlyOwn == ~stream.complete => state.finalData = NullData

\* C28: a session appends at most one assistant message; once its call has
\* returned with status 'Complete' and some text, it has appended exactly one,
\* whose content is the final currentResponse; and a session that was stopped
\* or failed before any sentinel, complete event or end of body appends none.
C28_OneAssistantMessage ==
  /\ Len(messages) <= 1
  /\ (~LatestInFlight /\ ~state.isStreaming /\ state.status = "Complete"
        /\ state.currentResponse # <<>>)
       => messages = <<state.currentResponse>>
  /\ (clean /\ LatestInFlight /\ state.status \in {"Stopped", "Error"}
        /\ ~stream.complete /\ ~stream.sentinel)
       => messages = <<>>

\* C29: isStreaming agrees with status: it is false whenever status is
\* 'Complete', 'Error' or 'Stopped' and true whenever status is 'Connecting...'
\* or 'Generating response...'; and while it is true, error and finalData are
\* null.
C29_StreamingAgreesWithStatus ==
  /\ state.status \in TerminalStatus => ~state.isStreaming
  /\ state.status \in {"Connecting...", "Generating response..."}
       => state.isStreaming
  /\ state.isStreaming => (state.error = NULL /\ state.finalData = NullData)

\* C22: in useEnhancedChat, once the loop has come to an error event the call
\* has rejected: error and the message passed to onError are the event's error
\* text or 'Stream error occurred', and no later event has been handled.
C22_ErrorEventRejects ==
  call.sawError
    => /\ call.pc = "failed"
       /\ error \in {"boom", "Stream error occurred"}
       /\ onError = error
       /\ ~call.pastError

\* the fragments of the token events of a stream, up to its sentinel
StreamTokens(evs) == Delivered(NoStream, evs).tokens

\* C23: in useEnhancedChat, whatever the partition of the text into chunks,
\* when the call has returned from a stream with token events and no complete
\* event, the content of the last message passed to onMessage is the
\* concatenation of all token fragments of the stream.
C23_EnhancedChunkingIndependent ==
  (call.pc = "done" /\ StreamTokens(sent) # <<>>
     /\ ~Delivered(NoStream, sent).complete)
    => /\ onMessage # NoMessage
       /\ onMessage.content = StreamTokens(sent)

\* C27: in useEnhancedChat, when a call that handled at least one token has
\* returned, by the sentinel or by the end of the body, the last message passed
\* to onMessage is not marked isStreaming and its content is the accumulated
\* answer.
C27_FinalMessageAlways ==
  (call.pc = "done" /\ ~call.isFirstToken)
    => /\ onMessage # NoMessage
       /\ ~onMessage.isStreaming
       /\ onMessage.content = call.fullResponse

\* consecutive refreshProfile calls of each instance are at least DEBOUNCE_MS
\* apart
Spaced(stamps) ==
  \A i \in Instances : \A k \in 1..(Len(stamps[i]) - 1) :
     stamps[i][k + 1] - stamps[i][k] >= DEBOUNCE_MS

\* C24: a call of refreshBudget, refreshBudgetWithFeedback or
\* refreshBudgetSilently made less than DEBOUNCE_MS after the last refresh that
\* was let through calls no refreshProfile, and any two refreshProfile calls
\* are at least DEBOUNCE_MS apart, whether or not the earlier one succeeded.
C24_RefreshDebounced ==
  [][/\ Spaced(called')
     /\ (now - lastRefreshRef["component"] < DEBOUNCE_MS
           /\ (refreshBudget \/ refreshBudgetWithFeedback \/ refreshBudgetSilently))
          => (op'.refresh = "skipped" /\ UNCHANGED <<lastRefreshRef, profiles, called>>)
    ]_vars

\* two refreshes exactly DEBOUNCE_MS apart, the first of which has failed, and
\* a call after the second that was skipped
C24_Witness ==
  /\ Len(called["component"]) = 2
  /\ called["component"][2] - called["component"][1] = DEBOUNCE_MS
  /\ settled # NotSettled /\ settled.profile = "rejected"
  /\ settled.from = "component"
  /\ BagCardinality(profiles) = 1
  /\ op # NoOp /\ op.name \in RefreshFunctions /\ op.refresh = "skipped"
  /\ now > called["component"][2]

\* C25: handleMessageWithBudgetRefresh passes every message on to onMessage,
\* and calls refreshBudgetSilently only for a complete assistant message with
\* autoRefreshBudget true: a streaming update or a user message starts no
\* refresh; and the failure of a refresh it started does not reject it.
C25_RefreshOnlyForCompleteAnswer ==
  [][/\ handleMessageWithBudgetRefresh
          => /\ op'.name = "handleMessageWithBudgetRefresh"
             /\ op'.forwarded = op'.arg.message
             /\ ~RefreshesFor(op'.arg.autoRefreshBudget, op'.arg.message)
                  => (op'.refresh = "none"
                        /\ UNCHANGED <<lastRefreshRef, profiles, called>>)
     /\ \A p \in BagToSet(profiles) :
          (p.from = "handleMessageWithBudgetRefresh" /\ ProfileRejects(p))
            => (settled'.by = "refreshBudgetSilently"
                  /\ settled'.caller = "resolved" /\ settled'.toast = NULL)
    ]_vars

\* a complete assistant message whose refresh has failed, then a streaming
\* update that started none
C25_Witness ==
  /\ settled # NotSettled
  /\ settled.from = "handleMessageWithBudgetRefresh"
  /\ settled.profile = "rejected" /\ settled.caller = "resolved"
  /\ op # NoOp /\ op.name = "handleMessageWithBudgetRefresh"
  /\ op.arg.message.isStreaming /\ op.arg.message.sender = "assistant"
  /\ op.arg.autoRefreshBudget
  /\ op.forwarded = op.arg.message
  /\ op.refresh = "none"
  /\ now - lastRefreshRef["useEnhancedChatWithBudget"] >= DEBOUNCE_MS

\* C26: callWithBudgetRefresh settles as apiCall does, with the same value or
\* the same error; after a rejection refreshBudgetSilently is not called; after
\* a resolution with shouldRefreshBudget it is called and not awaited, and
\* whatever becomes of that refresh the result returned stays as it was.
C26_ResultUnchanged ==
  [][/\ \A a \in BagToSet(apis) :
          /\ ApiRejects(a)
               => /\ op'.result = op'.arg.outcome
                  /\ op'.result.settled = "rejected"
                  /\ op'.refresh = "none"
                  /\ UNCHANGED <<lastRefreshRef, profiles, called>>
          /\ ApiResolves(a)
               => /\ op'.result = op'.arg.outcome
                  /\ op'.result.settled = "resolved"
                  /\ (op'.refresh # "none") = a.shouldRefreshBudget
     /\ \A p \in BagToSet(profiles) :
          (p.from = "callWithBudgetRefresh"
             /\ (ProfileRejects(p) \/ ProfileResolves(p)))
            => (op' = op /\ settled'.caller = "resolved")
    ]_vars

\* an apiCall that resolved, whose result was returned while its refresh was
\* pending, and whose refresh has then failed
C26_Witness ==
  /\ op # NoOp /\ op.name = "callWithBudgetRefresh"
  /\ op.result = Resolved("response2")
  /\ op.arg.shouldRefreshBudget /\ op.refresh = "started"
  /\ settled # NotSettled
  /\ settled.from = "callWithBudgetRefresh" /\ settled.profile = "rejected"
  /\ profiles = EmptyBag

\* ------------------------------------------------------------ AuthProvider
\* contexts/AuthContext.tsx.  A call of login, register or refreshProfile
\* runs until its fetch; the slice after the response is a separate action.

\* the users and access tokens the server answers with
Users == {"u1", "u2"}
AccessTokens == {"t1", "t2"}

\* JSON.stringify of a user, and JSON.parse of the stored text
Stringify(u) == <<"json", u>>
Parse(text) == text[2]

\* the page is loaded again: the provider is constructed anew and the calls
\* of the old page are gone; localStorage stays
Reload ==
  /\ mounted
  /\ provider' = [user |-> NULL, token |-> NULL, isLoading |-> TRUE]
  /\ requests' = EmptyBag
  /\ mounted' = FALSE
  /\ UNCHANGED <<localStorage, loggedOut, outsideAuth>>

\* the mount effect: take the session from localStorage if both entries are there
Mount ==
  /\ ~mounted
  /\ mounted' = TRUE
  /\ LET savedToken == localStorage.auth_token
         savedUser == localStorage.user_data
     IN  provider' = IF savedToken # NULL /\ savedUser # NULL
                     THEN [user |-> Parse(savedUser), token |-> savedToken,
                           isLoading |-> FALSE]
                     ELSE [provider EXCEPT !.isLoading = FALSE]
  /\ UNCHANGED <<localStorage, requests, loggedOut, outsideAuth>>

\* a fetch call is made
Fetch(request) ==
  requests' = requests (+) SetToBag({request})

\* a fetch call has settled
Settle(request) ==
  requests' = requests (-) SetToBag({request})

\* login up to its fetch
login ==
  /\ mounted
  /\ BagCardinality(requests) < MaxRequests
  /\ provider' = [provider EXCEPT !.isLoading = TRUE]
  /\ Fetch([kind |-> "login"])
  /\ UNCHANGED <<localStorage, mounted, loggedOut, outsideAuth>>

\* register up to its fetch
register ==
  /\ mounted
  /\ BagCardinality(requests) < MaxRequests
  /\ provider' = [provider EXCEPT !.isLoading = TRUE]
  /\ Fetch([kind |-> "register"])
  /\ UNCHANGED <<localStorage, mounted, loggedOut, outsideAuth>>

\* login or register after an ok response: the session is set and stored
Authenticated(r) ==
  /\ r.kind \in {"login", "register"}
  /\ \E access_token \in AccessTokens, u \in Users :
       /\ provider' = [user |-> u, token |-> access_token, isLoading |-> FALSE]
       /\ localStorage' = [auth_token |-> access_token, user_data |-> Stringify(u)]
  /\ Settle(r)
  /\ loggedOut' = FALSE
  /\ UNCHANGED <<mounted, outsideAuth>>

\* login or register after a response that is not ok, or a fetch that
\* rejected: the error is rethrown, finally clears isLoading
AuthenticationFails(r) ==
  /\ r.kind \in {"login", "register"}
  /\ provider' = [provider EXCEPT !.isLoading = FALSE]
  /\ Settle(r)
  /\ UNCHANGED <<localStorage, mounted, loggedOut, outsideAuth>>

\* what logout does to the provider and to localStorage
LoggedOut ==
  /\ provider' = [provider EXCEPT !.user = NULL, !.token = NULL]
  /\ localStorage' = [auth_token |-> NULL, user_data |-> NULL]
  /\ loggedOut' = TRUE

\* logout
logout ==
  /\ mounted
  /\ LoggedOut
  /\ UNCHANGED <<requests, mounted, outsideAuth>>

\* refreshProfile up to its fetch; it returns at once without a token
refreshProfile ==
  /\ mounted
  /\ BagCardinality(requests) < MaxRequests
  /\ IF provider.token = NULL
     THEN UNCHANGED requests
     ELSE Fetch([kind |-> "profile", token |-> provider.token])
  /\ UNCHANGED <<provider, localStorage, mounted, loggedOut, outsideAuth>>

\* refreshProfile after an ok response: the user is set and stored
ProfileFetched(r) ==
  /\ r.kind = "profile"
  /\ \E userData \in Users :
       /\ provider' = [provider EXCEPT !.user = userData]
       /\ localStorage' = [localStorage EXCEPT !.user_data = Stringify(userData)]
  /\ Settle(r)
  /\ UNCHANGED <<mounted, loggedOut, outsideAuth>>

\* refreshProfile after a response that is not ok, or a fetch that rejected:
\* the catch block calls logout
ProfileFails(r) ==
  /\ r.kind = "profile"
  /\ LoggedOut
  /\ Settle(r)
  /\ UNCHANGED <<mounted, outsideAuth>>

NextAuth ==
  \/ Reload
  \/ Mount
  \/ login
  \/ register
  \/ logout
  \/ refreshProfile
  \/ \E r \in BagToSet(requests) : Authenticated(r)
  \/ \E r \in BagToSet(requests) : AuthenticationFails(r)
  \/ \E r \in BagToSet(requests) : ProfileFetched(r)
  \/ \E r \in BagToSet(requests) : ProfileFails(r)

SpecAuth == Init /\ [][NextAuth]_vars

\* C30: in AuthProvider, whatever the interleaving of login, register, logout
\* and refreshProfile with their responses, the 'auth_token' and 'user_data'
\* entries of localStorage are both present or both absent, user is null
\* whenever token is null, after logout neither entry is stored until a login
\* or register succeeds, and a failed profile fetch leaves the provider logged
\* out with nothing stored.
C30_SessionConsistent ==
  [][/\ (localStorage'.auth_token = NULL) <=> (localStorage'.user_data = NULL)
     /\ provider'.token = NULL => provider'.user = NULL
     /\ loggedOut' => localStorage' = [auth_token |-> NULL, user_data |-> NULL]
     /\ (\E r \in BagToSet(requests) : ProfileFails(r))
          => /\ provider'.user = NULL /\ provider'.token = NULL
             /\ localStorage' = [auth_token |-> NULL, user_data |-> NULL]]_vars

====
